---- MODULE Spec2Model ----
(***************************************************************************)
(* WordlistRefinery: the analyzer (entropy, WPA2/password-like filter,     *)
(* complexity tags, strength classes), the chunked loader and the analyze  *)
(* command of src/src/wordlist_refinery.                                   *)
(*                                                                         *)
(* Text is a sequence of Unicode code points (naturals).  Floats are       *)
(* fixed-point numbers in micro-bits (1.0 = 1000000).                      *)
(***************************************************************************)
EXTENDS Integers, Sequences, FiniteSets, TLC

VARIABLES
    arg,                \* analyzer: the argument handed to the function under test
    ret,                \* analyzer: what the function returned ("none" before the call)
    called,             \* analyzer: name of the function that was applied, or "none"
    file,               \* the source file: a sequence of [content, term] lines
    chunk_size,         \* DataLoader.chunk_size
    pos,                \* load_chunks: number of lines of the file consumed so far
    gen,                \* load_chunks: "unstarted", "suspended" (at a yield), "done"
    chunks,             \* list(loader.load_chunks()): the DataFrames collected so far
    input_exists,       \* analyze: whether input_file exists
    output_exists,      \* analyze: whether output_file exists
    out,                \* analyze: the content of output_file, a sequence of entries
    min_entropy,        \* analyze options
    wpa2_compliant,
    add_metadata,
    markdown_table,
    pc,                 \* analyze: "idle", "start", "loop", "done", "exit1"
    total_passwords,    \* analyze locals that live across the loop
    use_ascii_output,   \* "None", "True" or "False"
    csv_header_written,
    console             \* what analyze printed, a sequence of messages

analyzerVars == <<arg, ret, called>>
loaderVars == <<file, chunk_size, pos, gen, chunks>>
optionVars == <<min_entropy, wpa2_compliant, add_metadata, markdown_table>>
runVars == <<input_exists, output_exists, out, pc, total_passwords, use_ascii_output,
             csv_header_written, console>>
pipelineVars == <<optionVars, runVars>>

vars == <<analyzerVars, loaderVars, pipelineVars>>

-----------------------------------------------------------------------------
(* Bounds of the model *)

MaxPieces == 2          \* pieces (single characters or tokens) making up a filter input
MaxTagLen == 4          \* length of the texts handed to tag_complexity
MaxWordLen == 6         \* length of the words handed to calculate_shannon_entropy
MaxDelta == 12          \* distance (micro-bits) explored around each strength threshold
MaxLines == 4           \* lines of a source file
MaxChunk == 3           \* largest chunk_size
MaxRunLines == 3        \* lines of a source file handed to analyze
MaxRunChunk == 2        \* largest --chunk-size handed to analyze
MaxFailLines == 2       \* lines of a source file handed to an analyze whose steps may raise
MaxPartialRows == 1     \* rows a write call that raises can leave in the file

-----------------------------------------------------------------------------
(* Generic helpers on sequences *)

RECURSIVE Flatten(_)
Flatten(ss) == IF ss = <<>> THEN <<>> ELSE Head(ss) \o Flatten(Tail(ss))

RECURSIVE Repeat(_, _)
Repeat(c, n) == IF n <= 0 THEN <<>> ELSE <<c>> \o Repeat(c, n - 1)

RECURSIVE SeqsUpTo(_, _)
SeqsUpTo(S, n) ==
    IF n = 0 THEN {<<>>}
    ELSE LET shorter == SeqsUpTo(S, n - 1)
         IN  shorter \cup {Append(s, x) : s \in {t \in shorter : Len(t) = n - 1}, x \in S}

Range(s) == {s[i] : i \in 1..Len(s)}

\* the sequence with the elements f[1], ..., f[n], each computed once
AsSeq(f) == <<>> \o f

\* the function f as a table, each value computed once
AsTable(f) == f @@ <<>>

-----------------------------------------------------------------------------
(* Character classes of the compiled patterns (analyzer.py:26-55), as sets *)
(* of code points.  \d, \s and \w are the Unicode classes Python's re uses *)
(* for str patterns; the non-ASCII members listed are representatives.     *)

PrintableAscii == 32..126                               \* [\x20-\x7E]
UpperAZ == 65..90                                       \* [A-Z]
LowerAZ == 97..122                                      \* [a-z]
Digit09 == 48..57                                       \* 0-9
UnicodeDigits == Digit09 \cup (1632..1641) \cup (65296..65305)          \* \d
SpecialChars ==                                         \* [!@#$%^&*(),.?":{}|<>]
    {33, 64, 35, 36, 37, 94, 38, 42, 40, 41, 44, 46, 63, 34, 58, 123, 125, 124, 60, 62}
PasswordLikeChars ==                        \* [A-Za-z0-9!@#$%^&*()_\-+=\[\]{};:'",.<>?/\\|~`]
    UpperAZ \cup LowerAZ \cup Digit09 \cup
    {33, 64, 35, 36, 37, 94, 38, 42, 40, 41, 95, 45, 43, 61, 91, 93, 123, 125,
     59, 58, 39, 34, 44, 46, 60, 62, 63, 47, 92, 124, 126, 96}
UnicodeWhitespace ==                                    \* \s, and str.isspace()
    {9, 10, 11, 12, 13, 28, 29, 30, 31, 32, 133, 160, 5760, 8232, 8233, 8239, 8287, 12288}
    \cup (8192..8202)
WordChars ==                                            \* \w, for \b
    UpperAZ \cup LowerAZ \cup Digit09 \cup {95} \cup (192..214) \cup (216..246)
    \cup (248..255) \cup (1632..1641) \cup (65296..65305)

\* re.IGNORECASE: the lower-case form a text character is compared under.
\* Besides A-Z, the non-ASCII characters that Python folds onto ASCII letters.
Lower(c) ==
    IF c \in UpperAZ THEN c + 32
    ELSE IF c = 8490 THEN 107          \* KELVIN SIGN -> k
    ELSE IF c = 383 THEN 115           \* LATIN SMALL LETTER LONG S -> s
    ELSE IF c \in {304, 305} THEN 105  \* dotted capital I, dotless i -> i
    ELSE c

\* The alternatives of REJECT_TEXT (analyzer.py:42-45); the second component
\* says whether the alternative ends in \b.
RejectTokens ==
    { <<<<104, 116, 116, 112, 58, 47, 47>>, FALSE>>,                 \* http://
      <<<<104, 116, 116, 112, 115, 58, 47, 47>>, FALSE>>,            \* https://
      <<<<119, 119, 119, 46>>, FALSE>>,                              \* www\.
      <<<<46, 99, 111, 109>>, TRUE>>,                                \* \.com\b
      <<<<46, 110, 101, 116>>, TRUE>>,                               \* \.net\b
      <<<<46, 111, 114, 103>>, TRUE>>,                               \* \.org\b
      <<<<114, 111, 99, 107, 121, 111, 117>>, FALSE>>,               \* rockyou
      <<<<102, 114, 105, 101, 110, 100, 115, 116, 101, 114>>, FALSE>>, \* friendster
      <<<<108, 97, 121, 111, 117, 116>>, FALSE>> }                   \* layout

-----------------------------------------------------------------------------
(* Regular-expression matching as re.search performs it *)

\* re.search(r"^[class]{lo,hi}$", s): ^ is the start of the string, $ the end
\* of the string or the position just before a newline that ends it.
SearchAnchoredClass(s, class, lo, hi) ==
    \E n \in lo..hi :
        /\ n <= Len(s)
        /\ \A i \in 1..n : s[i] \in class
        /\ \/ n = Len(s)
           \/ n = Len(s) - 1 /\ s[Len(s)] = 10

\* re.search(r"[class]", s)
SearchClass(s, class) == \E i \in 1..Len(s) : s[i] \in class

\* \b between positions e and e+1 of s
IsWordAt(s, k) == k \in 1..Len(s) /\ s[k] \in WordChars
WordBoundary(s, e) == IsWordAt(s, e) # IsWordAt(s, e + 1)

\* the literal tok (lower case) occurs in s at position i, ignoring case
LiteralAtIgnoreCase(s, tok, i) ==
    /\ i + Len(tok) - 1 <= Len(s)
    /\ \A j \in 1..Len(tok) : Lower(s[i + j - 1]) = tok[j]

\* re.search(REJECT_TEXT, s)
SearchRejectText(s) ==
    \E t \in RejectTokens : \E i \in 1..Len(s) :
        /\ LiteralAtIgnoreCase(s, t[1], i)
        /\ t[2] => WordBoundary(s, i + Len(t[1]) - 1)

MinLen == 8             \* {8,63} of WPA2_PATTERN and PASSWORDLIKE
MaxLen == 63

WPA2_PATTERN_MinOffByOne(s) == SearchAnchoredClass(s, PrintableAscii, MinLen + 1, MaxLen)

WPA2_PATTERN(s) == SearchAnchoredClass(s, PrintableAscii, MinLen, MaxLen)
REJECT_TEXT(s) == SearchRejectText(s)
REJECT_WHITESPACE(s) == SearchClass(s, UnicodeWhitespace)
PASSWORDLIKE(s) == SearchAnchoredClass(s, PasswordLikeChars, MinLen, MaxLen)
HAS_UPPER(s) == SearchClass(s, UpperAZ)
HAS_LOWER(s) == SearchClass(s, LowerAZ)
HAS_DIGIT(s) == SearchClass(s, UnicodeDigits)
HAS_SPECIAL(s) == SearchClass(s, SpecialChars)

-----------------------------------------------------------------------------
(* PasswordAnalyzer.calculate_shannon_entropy / vectorize_entropy *)

\* round(log2(n) * 10^6) for n = 1..80: the logarithm scipy.stats.entropy takes
Log2Table ==
    <<0, 1000000, 1584963, 2000000, 2321928, 2584963, 2807355, 3000000, 3169925, 3321928,
      3459432, 3584963, 3700440, 3807355, 3906891, 4000000, 4087463, 4169925, 4247928, 4321928,
      4392317, 4459432, 4523562, 4584963, 4643856, 4700440, 4754888, 4807355, 4857981, 4906891,
      4954196, 5000000, 5044394, 5087463, 5129283, 5169925, 5209453, 5247928, 5285402, 5321928,
      5357552, 5392317, 5426265, 5459432, 5491853, 5523562, 5554589, 5584963, 5614710, 5643856,
      5672425, 5700440, 5727920, 5754888, 5781360, 5807355, 5832890, 5857981, 5882643, 5906891,
      5930737, 5954196, 5977280, 6000000, 6022368, 6044394, 6066089, 6087463, 6108524, 6129283,
      6149747, 6169925, 6189825, 6209453, 6228819, 6247928, 6266787, 6285402, 6303781, 6321928>>

Log2Micro(n) == Log2Table[n]

\* collections.Counter(word)
Counter(word) == [c \in Range(word) |-> Cardinality({i \in 1..Len(word) : word[i] = c})]

Probs_OverLengthPlusOne(counts, length) == [c \in DOMAIN counts |-> <<counts[c], length + 1>>]

\* probs = [count / length for count in counts.values()], kept as exact fractions
Probs(counts, length) == [c \in DOMAIN counts |-> <<counts[c], length>>]

\* length * entr(p) for p = num/den, in micro-bits: -p * log2(p) = p * (log2 den - log2 num)
EntrTimesDen(p) == p[1] * (Log2Micro(p[2]) - Log2Micro(p[1]))

RECURSIVE SumEntr(_, _)
SumEntr(probs, keys) ==
    IF keys = {} THEN 0
    ELSE LET k == CHOOSE x \in keys : TRUE
         IN  EntrTimesDen(probs[k]) + SumEntr(probs, keys \ {k})

\* scipy.stats.entropy(probs, base=2): the probabilities already sum to one;
\* the sum of entr(p) over the distribution, rounded to the nearest micro-bit
ScipyEntropy(probs, length) == (2 * SumEntr(probs, DOMAIN probs) + length) \div (2 * length)

calculate_shannon_entropy(word) ==
    IF word = <<>> THEN 0
    ELSE LET counts == Counter(word)
             length == Len(word)
         IN  ScipyEntropy(Probs(counts, length), length)

\* np.vectorize(calculate_shannon_entropy)(series): the function applied to each
\* element; it is pure, so it is computed once for each distinct text
vectorize_entropy(series) ==
    LET of == AsTable([t \in Range(series) |-> calculate_shannon_entropy(t)])
    IN  AsSeq([i \in 1..Len(series) |-> of[series[i]]])

-----------------------------------------------------------------------------
(* PasswordAnalyzer.classify_strength *)

classify_strength_Inclusive(entropy_val) ==
    IF entropy_val <= 2500000 THEN "Very Weak"
    ELSE IF entropy_val <= 3500000 THEN "Weak"
    ELSE IF entropy_val <= 4500000 THEN "Moderate"
    ELSE "Strong"

classify_strength(entropy_val) ==
    IF entropy_val < 2500000 THEN "Very Weak"
    ELSE IF entropy_val < 3500000 THEN "Weak"
    ELSE IF entropy_val < 4500000 THEN "Moderate"
    ELSE "Strong"

-----------------------------------------------------------------------------
(* PasswordAnalyzer.filter_wpa2_compliant and tag_complexity.  A DataFrame *)
(* is the sequence of its rows, each row a record of its columns.          *)

\* df[mask]: the rows whose mask is true, in their order, columns untouched
BooleanIndex(df, mask) ==
    LET kept == SelectSeq([i \in 1..Len(df) |-> i], LAMBDA i : mask[i])
    IN  AsSeq([k \in 1..Len(kept) |-> df[kept[k]]])

\* s.str.contains(pattern, regex=True), where found[t] tells whether the
\* pattern is found in the text t: the search is applied to each element of
\* the column, once for each distinct text
StrContains(s, found) ==
    LET of == AsTable(found)
    IN  AsSeq([i \in 1..Len(s) |-> of[s[i]]])

filter_wpa2_compliant_NoTextMask(df) ==
    LET s == AsSeq([i \in 1..Len(df) |-> df[i].password])
        mask_wpa2 == StrContains(s, [t \in Range(s) |-> WPA2_PATTERN(t)])
        has_whitespace == StrContains(s, [t \in Range(s) |-> REJECT_WHITESPACE(t)])
        mask_passwordlike == StrContains(s, [t \in Range(s) |-> PASSWORDLIKE(t)])
        mask == AsSeq([i \in 1..Len(df) |->
                    mask_wpa2[i] /\ ~has_whitespace[i] /\ mask_passwordlike[i]])
    IN  BooleanIndex(df, mask)

filter_wpa2_compliant(df) ==
    LET s == AsSeq([i \in 1..Len(df) |-> df[i].password])
        mask_wpa2 == StrContains(s, [t \in Range(s) |-> WPA2_PATTERN(t)])
        has_text == StrContains(s, [t \in Range(s) |-> REJECT_TEXT(t)])
        has_whitespace == StrContains(s, [t \in Range(s) |-> REJECT_WHITESPACE(t)])
        mask_no_text == AsSeq([i \in 1..Len(df) |-> ~has_text[i]])
        mask_no_whitespace == AsSeq([i \in 1..Len(df) |-> ~has_whitespace[i]])
        mask_passwordlike == StrContains(s, [t \in Range(s) |-> PASSWORDLIKE(t)])
        mask == AsSeq([i \in 1..Len(df) |->
                    mask_wpa2[i] /\ mask_no_text[i] /\ mask_no_whitespace[i]
                    /\ mask_passwordlike[i]])
    IN  BooleanIndex(df, mask)

\* df[name] = column: the column added to (or replaced in) every row, the new
\* row computed once for each distinct pair of row and value
WithColumn(df, name, column) ==
    LET pairs == AsSeq([i \in 1..Len(df) |-> <<df[i], column[i]>>])
        of == AsTable([p \in Range(pairs) |->
                  [c \in DOMAIN p[1] \cup {name} |-> IF c = name THEN p[2] ELSE p[1][c]]])
    IN  AsSeq([i \in 1..Len(df) |-> of[pairs[i]]])

tag_complexity(df) ==
    LET s == AsSeq([i \in 1..Len(df) |-> df[i].password])
        u == WithColumn(df, "has_upper", StrContains(s, [t \in Range(s) |-> HAS_UPPER(t)]))
        l == WithColumn(u, "has_lower", StrContains(s, [t \in Range(s) |-> HAS_LOWER(t)]))
        d == WithColumn(l, "has_digit", StrContains(s, [t \in Range(s) |-> HAS_DIGIT(t)]))
    IN  WithColumn(d, "has_special", StrContains(s, [t \in Range(s) |-> HAS_SPECIAL(t)]))

-----------------------------------------------------------------------------
(* The analyzer under test: one function applied to one argument.          *)

LoaderIdle ==
    /\ file = <<>>
    /\ chunk_size = 1
    /\ pos = 0
    /\ gen = "unstarted"
    /\ chunks = <<>>

\* analyze is not running
PipelineIdle ==
    /\ input_exists = FALSE
    /\ output_exists = FALSE
    /\ out = <<>>
    /\ min_entropy = 0
    /\ wpa2_compliant = FALSE
    /\ add_metadata = FALSE
    /\ markdown_table = FALSE
    /\ pc = "idle"
    /\ total_passwords = 0
    /\ use_ascii_output = "None"
    /\ csv_header_written = FALSE
    /\ console = <<>>

\* a row of the DataFrame the pipeline hands to the filter: the text read and
\* the entropy column added before (main.py:166-168)
Row(text) == [password |-> text, entropy |-> calculate_shannon_entropy(text)]

\* Filter inputs: up to MaxPieces pieces, each one character or one noise
\* token, left-padded with "a" to one of the lengths around the {8,63} limits.
FilterAtoms == {97, 90, 55, 33, 32, 9, 10, 127, 233}    \* a Z 7 ! space tab \n DEL e-acute
FilterTokens ==
    { <<104, 116, 116, 112, 58, 47, 47>>,                   \* http://
      <<72, 84, 84, 80, 83, 58, 47, 47>>,                   \* HTTPS://
      <<119, 119, 119, 46>>,                                \* www.
      <<46, 99, 111, 109>>,                                 \* .com
      <<46, 78, 69, 84>>,                                   \* .NET
      <<46, 111, 114, 103>>,                                \* .org
      <<82, 111, 99, 107, 89, 111, 117>>,                   \* RockYou
      <<102, 114, 105, 101, 110, 100, 115, 116, 101, 114>>, \* friendster
      <<108, 97, 121, 111, 117, 116>> }                     \* layout
FilterPieces == {<<c>> : c \in FilterAtoms} \cup FilterTokens
TargetLens == {0, MinLen - 1, MinLen, MaxLen, MaxLen + 1}
PadTo(text, n) == Repeat(97, n - Len(text)) \o text
FilterTexts ==
    {PadTo(Flatten(ps), n) : ps \in SeqsUpTo(FilterPieces, MaxPieces), n \in TargetLens}

GoodText == <<112, 97, 115, 115, 119, 111, 114, 100>>       \* password
BadText == <<115, 104, 111, 114, 116>>                      \* short
FilterFrames ==
    {<<Row(t)>> : t \in FilterTexts}
    \cup {<<Row(GoodText), Row(t), Row(BadText)>> : t \in FilterTexts}

InitFilter ==
    /\ arg \in FilterFrames
    /\ ret = "none"
    /\ called = "none"
    /\ LoaderIdle
    /\ PipelineIdle

FilterWpa2Compliant ==
    /\ called = "none"
    /\ ret' = filter_wpa2_compliant(arg)
    /\ called' = "filter_wpa2_compliant"
    /\ UNCHANGED <<arg, loaderVars, pipelineVars>>

NextFilter == FilterWpa2Compliant

SpecFilter == InitFilter /\ [][NextFilter]_vars

\* tag_complexity inputs: one-row frames over a small alphabet
TagAtoms == {65, 97, 49, 33, 95, 201, 1635}     \* A a 1 ! _ E-acute ARABIC-INDIC DIGIT THREE
TagFrames == {<<[password |-> t]>> : t \in SeqsUpTo(TagAtoms, MaxTagLen)}

InitTag ==
    /\ arg \in TagFrames
    /\ ret = "none"
    /\ called = "none"
    /\ LoaderIdle
    /\ PipelineIdle

TagComplexity ==
    /\ called = "none"
    /\ ret' = tag_complexity(arg)
    /\ called' = "tag_complexity"
    /\ UNCHANGED <<arg, loaderVars, pipelineVars>>

NextTag == TagComplexity

SpecTag == InitTag /\ [][NextTag]_vars

\* calculate_shannon_entropy inputs: words over four characters
EntropyAtoms == {97, 98, 49, 233}               \* a b 1 e-acute
EntropyWords == SeqsUpTo(EntropyAtoms, MaxWordLen)

InitEntropy ==
    /\ arg \in EntropyWords
    /\ ret = "none"
    /\ called = "none"
    /\ LoaderIdle
    /\ PipelineIdle

CalculateShannonEntropy ==
    /\ called = "none"
    /\ ret' = calculate_shannon_entropy(arg)
    /\ called' = "calculate_shannon_entropy"
    /\ UNCHANGED <<arg, loaderVars, pipelineVars>>

NextEntropy == CalculateShannonEntropy

SpecEntropy == InitEntropy /\ [][NextEntropy]_vars

\* classify_strength inputs: the values around zero and around each threshold
StrengthInputs ==
    {t + d : t \in {0, 2500000, 3500000, 4500000}, d \in (0 - MaxDelta)..MaxDelta}
    \cup {2499000}

InitStrength ==
    /\ arg \in StrengthInputs
    /\ ret = "none"
    /\ called = "none"
    /\ LoaderIdle
    /\ PipelineIdle

ClassifyStrength ==
    /\ called = "none"
    /\ ret' = classify_strength(arg)
    /\ called' = "classify_strength"
    /\ UNCHANGED <<arg, loaderVars, pipelineVars>>

NextStrength == ClassifyStrength

SpecStrength == InitStrength /\ [][NextStrength]_vars

-----------------------------------------------------------------------------
(* The four rules of the compliance pass, as the specification words them  *)

AsciiLower(c) == IF c \in 65..90 THEN c + 32 ELSE c
AsciiLowered(t) == [i \in 1..Len(t) |-> AsciiLower(t[i])]
Occurs(t, tok) == \E i \in 1..(Len(t) - Len(tok) + 1) : SubSeq(t, i, i + Len(tok) - 1) = tok
\* tok occurs in t and the character after the occurrence, if any, is no word character
OccursAsSuffix(t, tok) ==
    \E i \in 1..(Len(t) - Len(tok) + 1) :
        /\ SubSeq(t, i, i + Len(tok) - 1) = tok
        /\ i + Len(tok) - 1 = Len(t) \/ t[i + Len(tok)] \notin WordChars

RuleStructural(t) == Len(t) \in 8..63 /\ \A i \in 1..Len(t) : t[i] \in 32..126
RuleNoNoise(t) ==
    LET l == AsciiLowered(t)
    IN  /\ \A tok \in {<<104, 116, 116, 112, 58, 47, 47>>, <<104, 116, 116, 112, 115, 58, 47, 47>>,
                       <<119, 119, 119, 46>>, <<114, 111, 99, 107, 121, 111, 117>>,
                       <<102, 114, 105, 101, 110, 100, 115, 116, 101, 114>>,
                       <<108, 97, 121, 111, 117, 116>>} : ~Occurs(l, tok)
        /\ \A tok \in {<<46, 99, 111, 109>>, <<46, 110, 101, 116>>, <<46, 111, 114, 103>>} :
               ~OccursAsSuffix(l, tok)
RuleNoWhitespace(t) == \A i \in 1..Len(t) : t[i] \notin UnicodeWhitespace
RulePasswordLike(t) == Len(t) \in 8..63 /\ \A i \in 1..Len(t) : t[i] \in PasswordLikeChars
AllFourRules(t) ==
    RuleStructural(t) /\ RuleNoNoise(t) /\ RuleNoWhitespace(t) /\ RulePasswordLike(t)

\* the index in df of the k-th row that satisfies AllFourRules
KeptIndices(df) == {i \in 1..Len(df) : AllFourRules(df[i].password)}
KthKept(df, k) ==
    CHOOSE i \in KeptIndices(df) : Cardinality({j \in KeptIndices(df) : j <= i}) = k

\* C1: filter_wpa2_compliant retains a row if and only if its text satisfies all
\* four rules (structural validity, no noise token, no whitespace, password-like
\* charset); the retained rows keep their text, their entropy and their order.
C1_RetainedIffAllFourRules ==
    called = "filter_wpa2_compliant" =>
        /\ Len(ret) = Cardinality(KeptIndices(arg))
        /\ \A k \in 1..Len(ret) : ret[k] = arg[KthKept(arg, k)]

\* a three-row frame whose middle row, of maximal length, is retained after the
\* first and whose last row is dropped
C1_Witness ==
    /\ called = "filter_wpa2_compliant"
    /\ Len(arg) = 3
    /\ Len(ret) = 2
    /\ Len(ret[2].password) = MaxLen
    /\ ret[2].entropy > 0

\* the text of a one-row frame, and whether the filter let that row pass
OnlyText == arg[1].password
Passes == ret = arg
Fails == ret = <<>>
AllPasswordLike(t) == \A i \in 1..Len(t) : t[i] \in PasswordLikeChars
HasNonAscii(t) == \E i \in 1..Len(t) : t[i] > 127

\* C2 as stated: every string of exactly 8 (63) password-like characters passes,
\* every one of 7 (64) fails, every string with a non-ASCII character fails.
C2_Original ==
    (called = "filter_wpa2_compliant" /\ Len(arg) = 1) =>
        /\ (AllPasswordLike(OnlyText) /\ Len(OnlyText) = 8) => Passes
        /\ (AllPasswordLike(OnlyText) /\ Len(OnlyText) = 7) => Fails
        /\ (AllPasswordLike(OnlyText) /\ Len(OnlyText) = 63) => Passes
        /\ (AllPasswordLike(OnlyText) /\ Len(OnlyText) = 64) => Fails
        /\ HasNonAscii(OnlyText) => Fails

\* C2 amended: every string of exactly 8 (63) password-like characters that
\* contains no noise token passes; every string of 7 (64) password-like
\* characters fails; every string with a non-ASCII character fails.
C2_BoundariesWithoutNoise ==
    (called = "filter_wpa2_compliant" /\ Len(arg) = 1) =>
        /\ (AllPasswordLike(OnlyText) /\ Len(OnlyText) = 8 /\ RuleNoNoise(OnlyText)) => Passes
        /\ (AllPasswordLike(OnlyText) /\ Len(OnlyText) = 7) => Fails
        /\ (AllPasswordLike(OnlyText) /\ Len(OnlyText) = 63 /\ RuleNoNoise(OnlyText)) => Passes
        /\ (AllPasswordLike(OnlyText) /\ Len(OnlyText) = 64) => Fails
        /\ HasNonAscii(OnlyText) => Fails

\* a 63-character password-like string without noise token that passed
C2_Witness ==
    /\ called = "filter_wpa2_compliant"
    /\ Len(arg) = 1
    /\ AllPasswordLike(OnlyText) /\ Len(OnlyText) = 63 /\ RuleNoNoise(OnlyText)
    /\ \E i \in 1..Len(OnlyText) : OnlyText[i] = 33
    /\ Passes

C4_FlagsAreAsciiClasses ==
    called = "tag_complexity" =>
        \A i \in 1..Len(ret) :
            LET t == arg[i].password
            IN  /\ ret[i].password = t
                /\ ret[i].has_upper <=> \E j \in 1..Len(t) : t[j] \in 65..90
                /\ ret[i].has_lower <=> \E j \in 1..Len(t) : t[j] \in 97..122
                /\ ret[i].has_digit <=> \E j \in 1..Len(t) : t[j] \in 48..57
                /\ ret[i].has_special <=> \E j \in 1..Len(t) : t[j] \in SpecialChars

\* word's distinct characters all occur equally often
Occurrences(word, c) == Cardinality({i \in 1..Len(word) : word[i] = c})
EquallyFrequent(word) ==
    \A c, d \in Range(word) : Occurrences(word, c) = Occurrences(word, d)
Distinct(word) == Cardinality(Range(word))
Abs(x) == IF x < 0 THEN 0 - x ELSE x

\* C5: the entropy of the empty string is 0; of a non-empty string whose k
\* distinct characters are equally frequent it is log2(k), to the last digit kept
\* (exactly 0, 1 and 2 bits for k = 1, 2, 4); it is never negative.
C5_EntropyOfUniformIsLog2 ==
    called = "calculate_shannon_entropy" =>
        /\ ret >= 0
        /\ arg = <<>> => ret = 0
        /\ (arg # <<>> /\ EquallyFrequent(arg)) =>
              /\ Abs(ret - Log2Table[Distinct(arg)]) <= 1
              /\ Distinct(arg) = 1 => ret = 0
              /\ Distinct(arg) = 2 => ret = 1000000
              /\ Distinct(arg) = 4 => ret = 2000000

\* three equally frequent characters, each occurring twice: log2(3)
C5_Witness ==
    /\ called = "calculate_shannon_entropy"
    /\ Len(arg) = 6
    /\ Distinct(arg) = 3
    /\ EquallyFrequent(arg)
    /\ ret = 1584963

-----------------------------------------------------------------------------
(* DataLoader (loader.py).  A line of the file is its content (no \r, \n)  *)
(* and its terminator: "LF", "CRLF", or "EOF" for a last line without one. *)

\* what `for line in f` delivers for a line: text mode translates \r\n to \n
ReadLine(l) == IF l.term = "EOF" THEN l.content ELSE l.content \o <<10>>

\* str.rstrip(chars)
RECURSIVE RStrip(_, _)
RStrip(t, chars) ==
    IF t # <<>> /\ t[Len(t)] \in chars THEN RStrip(SubSeq(t, 1, Len(t) - 1), chars) ELSE t

\* str.lstrip(chars)
RECURSIVE LStrip(_, _)
LStrip(t, chars) == IF t # <<>> /\ t[1] \in chars THEN LStrip(Tail(t), chars) ELSE t

\* str.strip(): whitespace removed at both ends
Strip(t) == LStrip(RStrip(t, UnicodeWhitespace), UnicodeWhitespace)

\* the body of the for loop up to `batch.append(password)`: the password a line
\* contributes, <<>> when the line is skipped
LinePassword(line) ==
    LET raw == RStrip(line, {13, 10})
        password == Strip(raw)
    IN  password

\* DataLoader._batch_to_dataframe
batch_to_dataframe(batch) == AsSeq([i \in 1..Len(batch) |-> [password |-> batch[i]]])

AppendedLines_NoSkip(f, p) == SelectSeq([i \in 1..Len(f) |-> i], LAMBDA i : i > p)

\* the lines after the first p that the loop appends to a batch (the others
\* are skipped by `if not password: continue`), by index, in file order
AppendedLines(f, p) ==
    LET password == AsTable([l \in Range(f) |-> LinePassword(ReadLine(l))])
    IN  SelectSeq([i \in 1..Len(f) |-> i], LAMBDA i : i > p /\ password[f[i]] # <<>>)

RunToYield_Late(f, size, p) ==
    LET appended == AppendedLines(f, p)
        password == AsTable([l \in Range(f) |-> LinePassword(ReadLine(l))])
        full == IF size < 1 THEN 2 ELSE size + 1
    IN  IF Len(appended) >= full
        THEN <<AsSeq([k \in 1..full |-> password[f[appended[k]]]]), appended[full]>>
        ELSE <<AsSeq([k \in 1..Len(appended) |-> password[f[appended[k]]]]), Len(f)>>

\* load_chunks resumed after `p` lines with an empty batch: it runs to the
\* next yield or to the end of the file.  The yield comes when len(batch) >=
\* chunk_size, that is with the first appended line when chunk_size < 1, and
\* at the end of the file for what is left.  <<batch, lines consumed>>
RunToYield(f, size, p) ==
    LET appended == AppendedLines(f, p)
        password == AsTable([l \in Range(f) |-> LinePassword(ReadLine(l))])
        full == IF size < 1 THEN 1 ELSE size
    IN  IF Len(appended) >= full
        THEN <<AsSeq([k \in 1..full |-> password[f[appended[k]]]]), appended[full]>>
        ELSE <<AsSeq([k \in 1..Len(appended) |-> password[f[appended[k]]]]), Len(f)>>

\* next(generator): after a yield the generator resumes with batch = []
NextBatch == RunToYield(file, chunk_size, pos)[1]
NextPos == RunToYield(file, chunk_size, pos)[2]

AnalyzerIdle ==
    /\ arg = "none"
    /\ ret = "none"
    /\ called = "none"

LineChoices ==
    { [content |-> <<97>>, term |-> "LF"],                      \* a
      [content |-> <<98, 44, 34, 99>>, term |-> "CRLF"],        \* b,"c
      [content |-> <<>>, term |-> "LF"],                        \* empty line
      [content |-> <<32, 9>>, term |-> "CRLF"],                 \* space, tab
      [content |-> <<32, 100, 32>>, term |-> "LF"],             \* " d "
      [content |-> <<101>>, term |-> "EOF"] }                   \* e, no newline at end of file
Files ==
    {f \in SeqsUpTo(LineChoices, MaxLines) : \A i \in 1..(Len(f) - 1) : f[i].term # "EOF"}

InitLoader ==
    /\ file \in Files
    /\ chunk_size \in 0..MaxChunk
    /\ pos = 0
    /\ gen = "unstarted"
    /\ chunks = <<>>
    /\ AnalyzerIdle
    /\ PipelineIdle

\* list(loader.load_chunks()): next() delivers a DataFrame
LoaderYield ==
    /\ gen # "done"
    /\ NextBatch # <<>>
    /\ chunks' = Append(chunks, batch_to_dataframe(NextBatch))
    /\ pos' = NextPos
    /\ gen' = "suspended"
    /\ UNCHANGED <<file, chunk_size, analyzerVars, pipelineVars>>

\* next() raises StopIteration: the file is exhausted and no batch is pending
LoaderStop ==
    /\ gen # "done"
    /\ NextBatch = <<>>
    /\ pos' = NextPos
    /\ gen' = "done"
    /\ UNCHANGED <<file, chunk_size, chunks, analyzerVars, pipelineVars>>

NextLoader == LoaderYield \/ LoaderStop

SpecLoader == InitLoader /\ [][NextLoader]_vars

-----------------------------------------------------------------------------
(* analyze (main.py:105-293): one run of the command over the source file  *)

MAX_ASCII_ROWS_FOR_FILE == 5000

\* the columns of chunk_df in the order the loop adds them
MetadataColumns ==
    <<"password", "entropy", "has_upper", "has_lower", "has_digit", "has_special", "strength">>
\* cols of dataframe_to_ascii_table and dataframe_to_markdown_table
TableColumns ==
    <<"password", "entropy", "strength", "has_upper", "has_lower", "has_digit", "has_special">>

\* step 1: chunk_df["entropy"] = vectorize_entropy(chunk_df["password"])
WithEntropy(df) ==
    LET e == vectorize_entropy(AsSeq([i \in 1..Len(df) |-> df[i].password]))
    IN  AsSeq([i \in 1..Len(df) |-> [password |-> df[i].password, entropy |-> e[i]]])

EntropyFiltered_Strict(df, threshold) ==
    IF threshold > 0
    THEN BooleanIndex(df, [i \in 1..Len(df) |-> df[i].entropy > threshold])
    ELSE df

\* step 2: if min_entropy > 0: chunk_df = chunk_df[chunk_df["entropy"] >= min_entropy]
EntropyFiltered(df, threshold) ==
    IF threshold > 0
    THEN BooleanIndex(df, AsSeq([i \in 1..Len(df) |-> df[i].entropy >= threshold]))
    ELSE df

\* step 3: if wpa2_compliant: chunk_df = filter_wpa2_compliant(chunk_df, "password")
Wpa2Filtered(df, enabled) == IF enabled THEN filter_wpa2_compliant(df) ELSE df

\* step 4: tag_complexity, then the strength column
WithMetadata(df) ==
    LET tagged == tag_complexity(df)
    IN  WithColumn(tagged, "strength",
                   AsSeq([i \in 1..Len(df) |-> classify_strength(tagged[i].entropy)]))

\* the loop body from the pull of a chunk to the end of step 3
PulledChunk == batch_to_dataframe(NextBatch)
AfterEntropy == EntropyFiltered(WithEntropy(PulledChunk), min_entropy)
AfterWpa2 == Wpa2Filtered(AfterEntropy, wpa2_compliant)
Annotated == IF add_metadata THEN WithMetadata(AfterWpa2) ELSE AfterWpa2

DecisionAfter_EveryBatch(original_count) ==
    IF add_metadata
    THEN (IF original_count <= MAX_ASCII_ROWS_FOR_FILE THEN "True" ELSE "False")
    ELSE use_ascii_output

\* the decision taken at main.py:234-238, as seen by step 5 of this iteration
DecisionAfter(original_count) ==
    IF add_metadata /\ use_ascii_output = "None"
    THEN (IF original_count <= MAX_ASCII_ROWS_FOR_FILE THEN "True" ELSE "False")
    ELSE use_ascii_output

\* step 5: what one iteration appends to the output file.  An entry is what one
\* write call appends: a table of the chunk, or the chunk's lines (CSV rows
\* with or without the header line, or the bare passwords).
TableEntry(kind, df) == <<[kind |-> kind, columns |-> TableColumns, rows |-> df]>>
CsvEntries(df, header) ==
    <<[kind |-> "csv", header |-> header, columns |-> MetadataColumns, rows |-> df]>>
RawEntries(df) ==
    <<[kind |-> "raw", rows |-> AsSeq([i \in 1..Len(df) |-> [password |-> df[i].password]])]>>

\* csv.writer under QUOTE_MINIMAL, as Series.to_csv and DataFrame.to_csv use it:
\* a field that holds the delimiter, the quote character or a line terminator
\* character is written between quote characters, its own quote characters
\* doubled; any other field is written as it is
CsvSpecial == {44, 34, 13, 10}                  \* , " \r \n
CsvField(text) ==
    IF \E i \in 1..Len(text) : text[i] \in CsvSpecial
    THEN <<34>>
         \o Flatten([i \in 1..Len(text) |-> IF text[i] = 34 THEN <<34, 34>> ELSE <<text[i]>>])
         \o <<34>>
    ELSE text

\* the lines chunk_df["password"].to_csv(mode="a", header=False, index=False)
\* appends for one chunk: one line for each row, no header line
RawLines(entry) ==
    LET texts == AsSeq([i \in 1..Len(entry.rows) |-> entry.rows[i].password])
        of == AsTable([t \in Range(texts) |-> CsvField(t)])
    IN  AsSeq([i \in 1..Len(texts) |-> of[texts[i]]])

Written_MarkdownFirst(df, decision) ==
    IF markdown_table THEN TableEntry("markdown_table", df)
    ELSE IF add_metadata
         THEN IF decision = "True" THEN TableEntry("ascii_table", df)
              ELSE CsvEntries(df, ~csv_header_written)
         ELSE RawEntries(df)

Written(df, decision) ==
    IF add_metadata
    THEN IF markdown_table THEN TableEntry("markdown_table", df)
         ELSE IF decision = "True" THEN TableEntry("ascii_table", df)
         ELSE CsvEntries(df, ~csv_header_written)
    ELSE RawEntries(df)

\* csv_header_written after the write of step 5: set by the first CSV write
HeaderWrittenAfter_NeverSet(decision) == csv_header_written
HeaderWrittenAfter(decision) ==
    csv_header_written \/ (add_metadata /\ ~markdown_table /\ decision # "True")

\* total_passwords += len(chunk_df)
Accumulate_Original(total, chunk_df, original_count) == total + original_count
Accumulate(total, chunk_df, original_count) == total + Len(chunk_df)

AppendToFile_Overwrite(content, entries) == entries
AppendToFile_Prepend(content, entries) == entries \o content

\* open(mode "a").write(...) and to_csv(mode="a")
AppendToFile(content, entries) == content \o entries

Say(msg) == console' = Append(console, msg)

Texts ==
    { <<97, 97, 97, 97, 97, 97, 97, 97>>,           \* aaaaaaaa: 0 bits, compliant
      <<97, 98, 99, 100, 101, 102, 103, 104>>,      \* abcdefgh: 3 bits, compliant
      <<97, 44, 34, 98>> }                          \* a,"b: 2 bits, too short
RunLines == {[content |-> t, term |-> "LF"] : t \in Texts \cup {<<>>}}
\* files whose first batch exceeds MAX_ASCII_ROWS_FOR_FILE: one line repeated,
\* then at most one more line; and a file whose first two batches exceed it:
\* aaaaaaaa repeated, then abcdefgh repeated, then one more abcdefgh
BigTexts == {<<97, 97, 97, 97, 97, 97, 97, 97>>, <<97, 98, 99, 100, 101, 102, 103, 104>>}
BigSize == MAX_ASCII_ROWS_FOR_FILE + 1
BigLine(t) == [content |-> t, term |-> "LF"]
BigBlock(t) == [i \in 1..BigSize |-> BigLine(t)]
BigFiles ==
    {BigBlock(t) \o tail : t \in BigTexts, tail \in SeqsUpTo({BigLine(u) : u \in BigTexts}, 1)}
    \cup {BigBlock(<<97, 97, 97, 97, 97, 97, 97, 97>>)
          \o BigBlock(<<97, 98, 99, 100, 101, 102, 103, 104>>)
          \o <<BigLine(<<97, 98, 99, 100, 101, 102, 103, 104>>)>>}
StaleOutput == <<[kind |-> "raw", rows |-> <<[password |-> <<111, 108, 100>>]>>]>>   \* old

Init ==
    /\ input_exists \in BOOLEAN
    /\ \/ /\ file \in IF input_exists THEN SeqsUpTo(RunLines, MaxRunLines) ELSE {<<>>}
          /\ chunk_size \in 1..MaxRunChunk
       \/ /\ input_exists
          /\ file \in BigFiles
          /\ chunk_size = BigSize
    /\ output_exists \in BOOLEAN
    /\ out = IF output_exists THEN StaleOutput ELSE <<>>
    /\ min_entropy \in {0, 3000000}
    /\ wpa2_compliant \in BOOLEAN
    /\ add_metadata \in BOOLEAN
    /\ markdown_table \in BOOLEAN
    /\ pc = "start"
    /\ total_passwords = 0
    /\ use_ascii_output = "None"
    /\ csv_header_written = FALSE
    /\ console = <<>>
    /\ pos = 0
    /\ gen = "unstarted"
    /\ chunks = <<>>
    /\ AnalyzerIdle

AnalyzeMissingInput_AfterTruncate ==
    /\ pc = "start"
    /\ ~input_exists
    /\ output_exists' = TRUE
    /\ out' = <<>>
    /\ Say([msg |-> "not found"])
    /\ pc' = "exit1"
    /\ UNCHANGED <<analyzerVars, loaderVars, optionVars, input_exists,
                   total_passwords, use_ascii_output, csv_header_written>>

\* main.py:132-135: the input file is missing
AnalyzeMissingInput ==
    /\ pc = "start"
    /\ ~input_exists
    /\ Say([msg |-> "not found"])
    /\ pc' = "exit1"
    /\ UNCHANGED <<analyzerVars, loaderVars, optionVars, input_exists, output_exists, out,
                   total_passwords, use_ascii_output, csv_header_written>>

\* main.py:137-157: warning, truncation of the output file, initial locals
AnalyzeStart ==
    /\ pc = "start"
    /\ input_exists
    /\ console' = console
            \o (IF markdown_table /\ ~add_metadata
                THEN <<[msg |-> "markdown-table only works with add-metadata"]>> ELSE <<>>)
            \o <<[msg |-> "starting"]>>
    /\ output_exists' = TRUE
    /\ out' = <<>>
    /\ total_passwords' = 0
    /\ use_ascii_output' = "None"
    /\ csv_header_written' = FALSE
    /\ pc' = "loop"
    /\ UNCHANGED <<analyzerVars, loaderVars, optionVars, input_exists>>

\* one iteration that ends at main.py:173-177: nothing survives the entropy filter
ChunkEmptyAfterEntropy ==
    /\ pc = "loop"
    /\ NextBatch # <<>>
    /\ AfterEntropy = <<>>
    /\ pos' = NextPos
    /\ gen' = "suspended"
    /\ Say([msg |-> "retained 0 after entropy filter", of |-> Len(PulledChunk)])
    /\ UNCHANGED <<analyzerVars, file, chunk_size, chunks, optionVars, input_exists,
                   output_exists, out, pc, total_passwords, use_ascii_output,
                   csv_header_written>>

ChunkEmptyAfterWpa2_Decides ==
    /\ pc = "loop"
    /\ NextBatch # <<>>
    /\ AfterEntropy # <<>>
    /\ AfterWpa2 = <<>>
    /\ pos' = NextPos
    /\ gen' = "suspended"
    /\ use_ascii_output' = DecisionAfter(Len(PulledChunk))
    /\ Say([msg |-> "retained 0 after WPA2 filter", of |-> Len(PulledChunk)])
    /\ UNCHANGED <<analyzerVars, file, chunk_size, chunks, optionVars, input_exists,
                   output_exists, out, pc, total_passwords, csv_header_written>>

\* one iteration that ends at main.py:184-188: nothing survives the WPA2 filter
ChunkEmptyAfterWpa2 ==
    /\ pc = "loop"
    /\ NextBatch # <<>>
    /\ AfterEntropy # <<>>
    /\ AfterWpa2 = <<>>
    /\ pos' = NextPos
    /\ gen' = "suspended"
    /\ Say([msg |-> "retained 0 after WPA2 filter", of |-> Len(PulledChunk)])
    /\ UNCHANGED <<analyzerVars, file, chunk_size, chunks, optionVars, input_exists,
                   output_exists, out, pc, total_passwords, use_ascii_output,
                   csv_header_written>>

\* one full iteration, main.py:160-284: annotate, decide, write, count
ChunkWritten ==
    /\ pc = "loop"
    /\ NextBatch # <<>>
    /\ AfterEntropy # <<>>
    /\ AfterWpa2 # <<>>
    /\ LET original_count == Len(PulledChunk)
           chunk_df == Annotated
           decision == DecisionAfter(original_count)
       IN  /\ use_ascii_output' = decision
           /\ out' = AppendToFile(out, Written(chunk_df, decision))
           /\ csv_header_written' = HeaderWrittenAfter(decision)
           /\ total_passwords' = Accumulate(total_passwords, chunk_df, original_count)
           /\ Say([msg |-> "retained", n |-> Len(chunk_df), of |-> original_count])
    /\ pos' = NextPos
    /\ gen' = "suspended"
    /\ UNCHANGED <<analyzerVars, file, chunk_size, chunks, optionVars, input_exists,
                   output_exists, pc>>

\* the loader is exhausted: main.py:290-293
AnalyzeFinish ==
    /\ pc = "loop"
    /\ NextBatch = <<>>
    /\ pos' = NextPos
    /\ gen' = "done"
    /\ console' = console \o <<[msg |-> "success"], [msg |-> "total retained", n |-> total_passwords]>>
    /\ pc' = "done"
    /\ UNCHANGED <<analyzerVars, file, chunk_size, chunks, optionVars, input_exists,
                   output_exists, out, total_passwords, use_ascii_output, csv_header_written>>

Next ==
    \/ AnalyzeMissingInput
    \/ AnalyzeStart
    \/ ChunkEmptyAfterEntropy
    \/ ChunkEmptyAfterWpa2
    \/ ChunkWritten
    \/ AnalyzeFinish

Spec == Init /\ [][Next]_vars

-----------------------------------------------------------------------------
(* analyze when a step raises: the handlers at main.py:286-288 and         *)
(* loader.py:81-86                                                          *)

\* the steps of the loop body in which an exception can be raised
FailureSteps == {"entropy", "entropy_filter", "wpa2_filter", "metadata", "format", "write"}

\* whether the loop body reaches the step, given what the two filters left of
\* the chunk just pulled and the decision as step 5 sees it
StepReached(step, after_entropy, after_wpa2, decision) ==
    CASE step = "entropy" -> TRUE                                       \* main.py:166-168
      [] step = "entropy_filter" -> min_entropy > 0                     \* main.py:171-172
      [] step = "wpa2_filter" -> wpa2_compliant /\ after_entropy # <<>> \* main.py:180-183
      [] step = "metadata" ->                                           \* main.py:191-231
            add_metadata /\ after_entropy # <<>> /\ after_wpa2 # <<>>
      [] step = "format" ->                                             \* main.py:244, 251
            /\ add_metadata /\ after_entropy # <<>> /\ after_wpa2 # <<>>
            /\ (markdown_table \/ decision = "True")
      [] step = "write" -> after_entropy # <<>> /\ after_wpa2 # <<>>    \* main.py:245-279

Min(a, b) == IF a <= b THEN a ELSE b

\* what a write call that raises leaves in the file: nothing, or the
\* beginning of what it was writing (an entry with the first rows only)
PartialWrites(entries) ==
    {<<>>} \cup {<<[entries[1] EXCEPT !.rows = SubSeq(@, 1, k)]>> :
                    k \in 0..Min(Len(entries[1].rows), MaxPartialRows)}

ChunkFails_SkipAndContinue ==
    /\ pc = "loop"
    /\ LET batch == RunToYield(file, chunk_size, pos)
           after_entropy == EntropyFiltered(WithEntropy(batch_to_dataframe(batch[1])), min_entropy)
           after_wpa2 == Wpa2Filtered(after_entropy, wpa2_compliant)
           decision == DecisionAfter(Len(batch[1]))
       IN  /\ batch[1] # <<>>
           /\ \E step \in FailureSteps :
                 /\ StepReached(step, after_entropy, after_wpa2, decision)
                 /\ Say([msg |-> "processing failed", at |-> step])
           /\ pos' = batch[2]
    /\ gen' = "suspended"
    /\ UNCHANGED <<analyzerVars, file, chunk_size, chunks, optionVars, input_exists,
                   output_exists, out, pc, total_passwords, use_ascii_output,
                   csv_header_written>>

\* main.py:286-288: a step of the loop body raises for the chunk just pulled.
\* The handler prints the message and raises typer.Exit(1); what the body
\* assigned before the step that raised stays assigned.
ChunkFails ==
    /\ pc = "loop"
    /\ LET batch == RunToYield(file, chunk_size, pos)
           after_entropy == EntropyFiltered(WithEntropy(batch_to_dataframe(batch[1])), min_entropy)
           after_wpa2 == Wpa2Filtered(after_entropy, wpa2_compliant)
           chunk_df == IF add_metadata THEN WithMetadata(after_wpa2) ELSE after_wpa2
           decision == DecisionAfter(Len(batch[1]))
       IN  /\ batch[1] # <<>>
           /\ \E step \in FailureSteps :
                 /\ StepReached(step, after_entropy, after_wpa2, decision)
                 /\ use_ascii_output' = IF step \in {"format", "write"}
                                        THEN decision ELSE use_ascii_output
                 /\ IF step = "write"
                    THEN \E left \in PartialWrites(Written(chunk_df, decision)) :
                            out' = AppendToFile(out, left)
                    ELSE out' = out
                 /\ Say([msg |-> "processing failed", at |-> step])
           /\ pos' = batch[2]
    /\ gen' = "suspended"
    /\ pc' = "exit1"
    /\ UNCHANGED <<analyzerVars, file, chunk_size, chunks, optionVars, input_exists,
                   output_exists, total_passwords, csv_header_written>>

\* loader.py:81-86 and main.py:286-288: open() or a read raises inside
\* load_chunks while the loop pulls.  The loader's handler prints its message
\* and raises typer.Exit(code=1); typer.Exit is click's Exit, a RuntimeError,
\* so the handler of analyze catches it, prints and raises typer.Exit(1).
\* FileNotFoundError can only come from open(), at the first pull.  The lines
\* gathered for the batch under construction are lost with the generator.
LoaderFails ==
    /\ pc = "loop"
    /\ \E error \in IF gen = "unstarted" THEN {"not found", "critical error during loading"}
                    ELSE {"critical error during loading"} :
          console' = console \o <<[msg |-> error], [msg |-> "processing failed", at |-> "load"]>>
    /\ gen' = "done"
    /\ pc' = "exit1"
    /\ UNCHANGED <<analyzerVars, file, chunk_size, pos, chunks, optionVars, input_exists,
                   output_exists, out, total_passwords, use_ascii_output, csv_header_written>>

\* the runs of analyze in which any step of the loop may raise, over the
\* source files of at most MaxFailLines lines
InitFailure ==
    /\ Init
    /\ Len(file) <= MaxFailLines

NextFailure ==
    \/ AnalyzeMissingInput
    \/ AnalyzeStart
    \/ ChunkEmptyAfterEntropy
    \/ ChunkEmptyAfterWpa2
    \/ ChunkWritten
    \/ ChunkFails
    \/ LoaderFails
    \/ AnalyzeFinish

SpecFailure == InitFailure /\ [][NextFailure]_vars

-----------------------------------------------------------------------------
(* Claims on the loader *)

IsBlank(l) == \A i \in 1..Len(l.content) : l.content[i] \in UnicodeWhitespace
NonBlankIndices == {i \in 1..Len(file) : ~IsBlank(file[i])}
NumNonBlank == Cardinality(NonBlankIndices)
KthNonBlank(k) ==
    file[CHOOSE i \in NonBlankIndices : Cardinality({j \in NonBlankIndices : j <= i}) = k]
Candidates == Flatten(chunks)
WithoutWhitespace(t) == SelectSeq(t, LAMBDA c : c \notin UnicodeWhitespace)

\* C6: for a positive batch size B and N non-blank lines load_chunks yields
\* ceil(N/B) batches, all of B candidates but the last, which holds 1..B; no
\* batch is ever empty; a source with no non-blank line yields no batch.
C6_BatchCountAndSizes ==
    /\ \A i \in 1..Len(chunks) : Len(chunks[i]) >= 1
    /\ (gen = "done" /\ chunk_size > 0) =>
          /\ Len(chunks) = (NumNonBlank + chunk_size - 1) \div chunk_size
          /\ \A i \in 1..(Len(chunks) - 1) : Len(chunks[i]) = chunk_size
          /\ Len(chunks) > 0 => Len(chunks[Len(chunks)]) \in 1..chunk_size
          /\ NumNonBlank = 0 => chunks = <<>>

\* three non-blank lines and a blank one, batch size 2: batches of 2 and 1
C6_Witness ==
    /\ gen = "done"
    /\ chunk_size = 2
    /\ NumNonBlank = 3
    /\ Len(file) = 4
    /\ Len(chunks) = 2
    /\ Len(chunks[1]) = 2 /\ Len(chunks[2]) = 1

\* C7: the batches, concatenated, hold exactly one candidate per non-blank line,
\* in file order (the k-th candidate carries the non-whitespace characters of
\* the k-th non-blank line); blank lines give no candidate.
C7_OneCandidatePerNonBlankLine ==
    gen = "done" =>
        /\ Len(Candidates) = NumNonBlank
        /\ \A k \in 1..Len(Candidates) :
              WithoutWhitespace(Candidates[k].password) = WithoutWhitespace(KthNonBlank(k).content)

\* a blank line between two different non-blank lines that went to two batches
C7_Witness ==
    /\ gen = "done"
    /\ Len(file) = 3
    /\ IsBlank(file[2])
    /\ Len(chunks) = 2
    /\ Candidates[1] # Candidates[2]

\* C8 as stated: the candidate of a non-blank line is the line without its
\* terminator, every other character kept.
C8_OnlyTerminatorRemoved ==
    gen = "done" =>
        \A k \in 1..Len(Candidates) :
            k <= NumNonBlank => Candidates[k].password = KthNonBlank(k).content

-----------------------------------------------------------------------------
(* Claims on analyze *)

\* the candidates the loader reads from the whole file, and from its first p lines
CandidatesUpTo(p) ==
    LET read == SelectSeq(AppendedLines(file, 0), LAMBDA i : i <= p)
        password == AsTable([l \in Range(file) |-> LinePassword(ReadLine(l))])
    IN  AsSeq([k \in 1..Len(read) |-> password[file[read[k]]]])
AllCandidates == CandidatesUpTo(Len(file))

\* the data records of the output file, in file order, and their texts
OutRows == Flatten([k \in 1..Len(out) |-> out[k].rows])
OutTexts == LET rows == OutRows IN AsSeq([k \in 1..Len(rows) |-> rows[k].password])

CountIn(seq, t) == Cardinality({k \in 1..Len(seq) : seq[k] = t})

\* a candidate passes every enabled filter
PassesEnabledFilters(t) ==
    /\ min_entropy > 0 => calculate_shannon_entropy(t) >= min_entropy
    /\ wpa2_compliant => AllFourRules(t)

\* C9: after a whole run, a candidate read by the loader is in the output if
\* and only if it passes every enabled filter (as often as it was read).
C9_WrittenIffPassesEnabledFilters ==
    pc = "done" =>
        LET read == AllCandidates
            written == OutTexts
        IN  \A t \in Range(read) \cup Range(written) :
                CountIn(written, t) = IF PassesEnabledFilters(t) THEN CountIn(read, t) ELSE 0

\* a finished run with both filters on that kept one candidate and dropped others
C9_Witness ==
    /\ pc = "done"
    /\ min_entropy > 0
    /\ wpa2_compliant
    /\ Len(AllCandidates) = 3
    /\ Len(OutTexts) = 1
    /\ calculate_shannon_entropy(OutTexts[1]) = min_entropy

\* C10: at every point of the run the output holds, in source order, exactly the
\* retained candidates of the batches pulled so far; at the end these are all
\* the batches of the file.
C10_OutputInSourceOrder ==
    /\ pc \in {"loop", "done"} =>
          LET read == CandidatesUpTo(pos)
              passes == AsTable([t \in Range(read) |-> PassesEnabledFilters(t)])
          IN  OutTexts = SelectSeq(read, LAMBDA t : passes[t])
    /\ pc = "done" => pos = Len(file)

\* two batches written one after the other, the first and the last candidate kept
C10_Witness ==
    /\ pc = "done"
    /\ chunk_size = 2
    /\ Len(AllCandidates) = 3
    /\ Len(OutTexts) = 2
    /\ OutTexts[1] = AllCandidates[1]
    /\ OutTexts[2] = AllCandidates[3]
    /\ OutTexts[1] # OutTexts[2]
    /\ Len(out) = 2

\* the lines of the output file when every write was a raw write
RawFileLines == Flatten([k \in 1..Len(out) |-> RawLines(out[k])])

\* C11: in raw-list mode the lines of the output file are the texts of the
\* retained candidates, one line each, unchanged, with no header line and no
\* added character.
C11_RawLinesAreCandidateTexts ==
    (pc \in {"loop", "done"} /\ ~add_metadata) => RawFileLines = OutTexts

\* the written entries that hold records with columns
MetadataKinds == {"ascii_table", "markdown_table", "csv"}

\* C12: in compact, markup and delimited mode the columns of what is written
\* are, in this order: text, entropy, strength label, has_upper, has_lower,
\* has_digit, has_special (in delimited mode for the header row and the data
\* rows alike).
C12_ColumnOrderFixed ==
    pc \in {"loop", "done"} =>
        \A k \in 1..Len(out) :
            out[k].kind \in MetadataKinds =>
                out[k].columns = <<"password", "entropy", "strength",
                                   "has_upper", "has_lower", "has_digit", "has_special">>

\* C13: in delimited mode the header row is written exactly once: by the first
\* write of the run, ahead of its data rows, and by no later write; the flag
\* csv_header_written tells whether it was written.
C13_HeaderExactlyOnce ==
    pc \in {"loop", "done"} =>
        /\ \A k \in 1..Len(out) : out[k].kind = "csv" => (out[k].header <=> k = 1)
        /\ csv_header_written <=> (\E k \in 1..Len(out) : out[k].kind = "csv")

\* a run whose first batch was removed whole by the entropy filter and whose
\* second and third batch were written as delimited rows
C13_Witness ==
    /\ pc = "done"
    /\ Len(console) >= 2
    /\ console[2].msg = "retained 0 after entropy filter"
    /\ Len(out) = 2
    /\ out[1].kind = "csv" /\ out[1].header
    /\ out[2].kind = "csv" /\ ~out[2].header
    /\ Len(out[2].rows) = 1

\* the one mode the configuration and the decision select
ModeOf(metadata, markdown, decision) ==
    IF ~metadata THEN "raw"
    ELSE IF markdown THEN "markdown_table"
    ELSE IF decision = "True" THEN "ascii_table"
    ELSE IF decision = "False" THEN "csv"
    ELSE "undecided"

\* C14: every write of a run is in the mode selected by add_metadata,
\* markdown_table and the decision: raw without add_metadata, markdown table
\* with add_metadata and markdown_table, ASCII table or CSV with add_metadata
\* alone according to the decision (which is then taken); so all writes of a
\* run are in one mode.
C14_OneModePerRun ==
    pc \in {"loop", "done"} =>
        \A k \in 1..Len(out) :
            out[k].kind = ModeOf(add_metadata, markdown_table, use_ascii_output)

\* two raw writes in a run with markdown_table set and add_metadata not set
C14_Witness ==
    /\ pc = "done"
    /\ ~add_metadata
    /\ markdown_table
    /\ Len(out) = 2
    /\ out[1].kind = "raw"
    /\ out[2].kind = "raw"

IsPrefix(a, b) == Len(a) <= Len(b) /\ SubSeq(b, 1, Len(a)) = a

\* C15: the output file is truncated (or created empty) by the step that
\* starts the run, before the loader is started; every later step of the run
\* leaves what the file holds as an unchanged prefix of its content.
C15_TruncateOnceThenAppend ==
    [][ /\ (pc = "start" /\ pc' = "loop") =>
              (out' = <<>> /\ output_exists' /\ gen' = "unstarted" /\ pos' = 0)
        /\ pc = "loop" => (output_exists' /\ IsPrefix(out, out')) ]_vars

\* a run that has appended twice and has a further batch to pull
C15_Witness ==
    /\ pc = "loop"
    /\ Len(out) = 2
    /\ NextBatch # <<>>

\* C16: when the input file does not exist, the one step analyze takes prints
\* the "not found" message and exits with status 1; the loader is not started,
\* the output file is neither created nor modified, and the loop is never
\* entered.
C16_MissingInputLeavesOutput ==
    /\ [](~input_exists => pc \in {"start", "exit1"})
    /\ [][ (pc = "start" /\ ~input_exists) =>
              /\ pc' = "exit1"
              /\ console' = <<[msg |-> "not found"]>>
              /\ output_exists' = output_exists
              /\ out' = out
              /\ gen' = "unstarted" /\ pos' = 0 /\ chunks' = <<>>
              /\ total_passwords' = 0 ]_vars

\* an exit with status 1 that left an existing output file with its content
C16_Witness ==
    /\ pc = "exit1"
    /\ ~input_exists
    /\ output_exists
    /\ out = StaleOutput
    /\ gen = "unstarted"

\* the original size of the first batch the loader delivers
FirstBatchSize == Len(RunToYield(file, chunk_size, 0)[1])

\* C17: with add_metadata, the decision of the run is ASCII (compact) if and
\* only if the first batch delivered by the loader had at most
\* MAX_ASCII_ROWS_FOR_FILE rows before the filters, whatever the filters
\* retained of it.
C17_DecisionFromFirstDeliveredBatch ==
    (pc \in {"loop", "done"} /\ add_metadata /\ use_ascii_output # "None") =>
        (use_ascii_output = "True" <=> FirstBatchSize <= MAX_ASCII_ROWS_FOR_FILE)

\* C18: once use_ascii_output has a value no later step of the run changes it,
\* and without add_metadata it never gets one.
C18_DecisionSetOnce ==
    /\ [](~add_metadata => use_ascii_output = "None")
    /\ [][ (pc = "loop" /\ use_ascii_output # "None") =>
              use_ascii_output' = use_ascii_output ]_vars

\* a run that decided for CSV on a batch above the limit and then wrote a
\* batch of one row
C18_Witness ==
    /\ pc = "done"
    /\ add_metadata
    /\ use_ascii_output = "False"
    /\ Len(out) = 2
    /\ Len(out[1].rows) > MAX_ASCII_ROWS_FOR_FILE
    /\ Len(out[2].rows) = 1
    /\ console[2].msg = "retained"

\* the entropy filter removes every candidate of the batch
EntropyRemovesAll(batch) ==
    min_entropy > 0 /\ \A t \in Range(batch) : calculate_shannon_entropy(t) < min_entropy

\* C19: a step of the loop on a batch of which no candidate passes the enabled
\* filters appends nothing to the output, leaves the retained total, the
\* decision and the header flag as they are, reports "retained 0" after the
\* filter that emptied the batch (after the entropy filter when that one
\* removes everything: the WPA2 filter is not run then), and stays in the loop
\* with the batch consumed.
C19_EmptyBatchWritesNothing ==
    [][ (pc = "loop" /\ NextBatch # <<>>
         /\ \A t \in Range(NextBatch) : ~PassesEnabledFilters(t)) =>
            /\ out' = out
            /\ total_passwords' = total_passwords
            /\ use_ascii_output' = use_ascii_output
            /\ csv_header_written' = csv_header_written
            /\ pc' = "loop"
            /\ pos' = NextPos
            /\ console' = Append(console,
                   [msg |-> IF EntropyRemovesAll(NextBatch)
                            THEN "retained 0 after entropy filter"
                            ELSE "retained 0 after WPA2 filter",
                    of |-> Len(NextBatch)]) ]_vars

\* a run with add_metadata whose first batch was emptied by the WPA2 filter
\* and whose second batch was written
C19_Witness ==
    /\ pc = "done"
    /\ add_metadata
    /\ Len(console) >= 3
    /\ console[2].msg = "retained 0 after WPA2 filter"
    /\ console[3].msg = "retained"
    /\ Len(out) = 1
    /\ total_passwords = 1

\* the per-batch progress messages printed so far, and the sum of the
\* survivor counts they report
BatchMessages ==
    SelectSeq(console, LAMBDA m : m.msg \in {"retained", "retained 0 after entropy filter",
                                              "retained 0 after WPA2 filter"})
RetainedOf(m) == IF m.msg = "retained" THEN m.n ELSE 0
RECURSIVE SumRetained(_)
SumRetained(ms) == IF ms = <<>> THEN 0 ELSE RetainedOf(Head(ms)) + SumRetained(Tail(ms))

\* C20: at every point of the run the retained total is the sum of the
\* survivor counts of the batches processed so far and the number of data
\* records in the output; no batch reports more survivors than its original
\* size; the total reported at the end is this total and does not exceed the
\* number of candidates read.
C20_TotalIsRecordsWritten ==
    pc \in {"loop", "done"} =>
        /\ total_passwords = SumRetained(BatchMessages)
        /\ total_passwords = Len(OutRows)
        /\ \A k \in 1..Len(BatchMessages) :
              RetainedOf(BatchMessages[k]) <= BatchMessages[k].of
        /\ pc = "done" =>
              /\ console[Len(console)] = [msg |-> "total retained", n |-> total_passwords]
              /\ total_passwords <= Len(AllCandidates)

\* a finished run of two written batches, the first of which lost a candidate
C20_Witness ==
    /\ pc = "done"
    /\ Len(BatchMessages) = 2
    /\ BatchMessages[1] = [msg |-> "retained", n |-> 1, of |-> 2]
    /\ BatchMessages[2] = [msg |-> "retained", n |-> 1, of |-> 1]
    /\ total_passwords = 2
    /\ Len(AllCandidates) = 3

-----------------------------------------------------------------------------
(* Claims on the failure handling of analyze *)

\* the step just taken reported a failure of the loop
FailureReported ==
    /\ console' # console
    /\ console'[Len(console')].msg = "processing failed"

SummaryMessages == {"success", "total retained"}

\* C21: a step of the loop that fails (in the entropy computation, a filter,
\* the annotation, the formatting, the write, or in the loader while the loop
\* pulls) ends the run with exit status 1: the retained total is not touched,
\* what the output file held stays as an unchanged prefix of it (and the file
\* stays as it was unless the write itself failed), and after the exit no
\* further step is taken, so no batch is pulled, processed, retried or written
\* and no success summary is printed.  A run that finishes with its summary
\* has reported no failure.
C21_FailureAbortsRun ==
    /\ [][ FailureReported =>
              /\ pc = "loop" /\ pc' = "exit1"
              /\ total_passwords' = total_passwords
              /\ csv_header_written' = csv_header_written
              /\ IsPrefix(out, out')
              /\ (console'[Len(console')].at # "write" => out' = out)
              /\ Len(out') <= Len(out) + 1 ]_vars
    /\ [][ pc # "exit1" ]_vars
    /\ [](pc = "exit1" => \A k \in 1..Len(console) : console[k].msg \notin SummaryMessages)
    /\ [](pc = "done" => \A k \in 1..Len(console) : console[k].msg # "processing failed")

\* a run that wrote its first batch, then failed in the write of the second
\* and left one row of it, with the total still counting the first batch only
C21_Witness ==
    /\ pc = "exit1"
    /\ console[Len(console)] = [msg |-> "processing failed", at |-> "write"]
    /\ console[Len(console) - 1].msg = "retained"
    /\ Len(out) = 2
    /\ Len(out[1].rows) = 1
    /\ Len(out[2].rows) = 1
    /\ total_passwords = 1
    /\ pos = 2

-----------------------------------------------------------------------------
(* Claims on the relation between the patterns of the compliance pass *)

====
